---------------------------- MODULE Spec2Model ----------------------------
(***************************************************************************)
(* Model of cloudfunctions/video-to-panoramas/lib.py: the pan-detection    *)
(* pipeline detect_pan_groups_from_video and its helpers; of the HTTP      *)
(* entry point extract_pans of cloudfunctions/video-to-panoramas/main.py;  *)
(* and of the task executor execute_dag of tools/agent_loop_implement.py.  *)
(*                                                                         *)
(* Numbers are fixed-point integers:                                       *)
(*   sharpness variance, sharp_thr ........ units of 1                     *)
(*   inlier_ratio, tau_inliers ............ hundredths   (0.30 -> 30)      *)
(*   median_u, median_v, resid, tau_v,                                     *)
(*   tau_u_min, tau_u_max, tau_parallax ... tenths of px (1.5 -> 15)       *)
(*   scale, tau_scale ..................... thousandths  (1.0 -> 1000)     *)
(* Sampled positions, pair indices and frame indices are 0-based as in the *)
(* source; TLA+ sequences are 1-based, so position p of a list is s[p+1].  *)
(***************************************************************************)
EXTENDS Integers, Sequences, FiniteSets, TLC

VARIABLES
    pc,                     \* position inside detect_pan_groups_from_video
    error,                  \* the exception that ended the run, or "none"
    cfg,                    \* defaults merged with the caller's settings
    video,                  \* the input file: [openable, frames (variances)]
    fidx,                   \* frame counter of the sampling loop
    sampled,                \* list of (frame_idx, image)
    pair_metrics,           \* list of (is_pan, score, m)
    i, j, direction, g,     \* group-building locals
    raw_groups_count,
    groups,                 \* list of (direction, sampled positions)
    gid,                    \* enumerate(groups, start=1)
    export_idxs,
    pos,                    \* position of the upload loop in export_idxs
    step,                   \* the local "step" handed to pick_subset
    exported_frame_uris,
    exported_frame_indices,
    storage,                \* object store: the set of written locations
    stitch_calls,           \* the invocations of stitch_group, with results
    results,                \* results["groups"]
    \* main.py, extract_pans
    hpc,                    \* position inside extract_pans
    request,                \* the HTTP request: [method, body]
    payload,                \* the parsed JSON body
    local_path,             \* the temporary file of the downloaded video
    tmp_files,              \* the temporary files that exist
    outcome,                \* what download and processing did
    response,               \* the (body, status) returned
    \* agent_loop_implement.py, execute_dag
    dpc,                    \* position inside execute_dag
    completed,
    failed,
    ready,                  \* deque of task ids
    in_progress,
    runnable_tasks,         \* the batch collected from the ready queue
    batch_results,          \* results of the run_task calls of the batch
    start_count             \* how many times run_task was called per task

libVars == <<pc, error, cfg, video, fidx, sampled, pair_metrics, i, j, direction,
             g, raw_groups_count, groups, gid, export_idxs, pos, step,
             exported_frame_uris, exported_frame_indices, storage,
             stitch_calls, results>>

handlerVars == <<hpc, request, payload, local_path, tmp_files, outcome,
                 response>>

dagVars == <<dpc, completed, failed, ready, in_progress, runnable_tasks,
             batch_results, start_count>>

vars == <<libVars, handlerVars, dagVars>>

-----------------------------------------------------------------------------
(* Bounds of the model *)

MaxFrames == 4      \* frames of a video in the end-to-end specification
MaxFramesS == 6     \* frames of a video in the sampling specification
MaxPairs == 4       \* pairs in the group-building specification
MaxMinLen == 4      \* largest min_group_len setting tried
MaxStep == 3        \* largest step handed to pick_subset
MaxIdx == 5         \* largest position in a list handed to pick_subset

-----------------------------------------------------------------------------
(* Helpers *)

At(s, p) == s[p + 1]

Abs(x) == IF x < 0 THEN -x ELSE x

Min(a, b) == IF a <= b THEN a ELSE b

Max(a, b) == IF a >= b THEN a ELSE b

Last(s) == s[Len(s)]

Range(s) == {s[k] : k \in 1..Len(s)}

SeqsUpTo(S, n) == UNION {[1..k -> S] : k \in 0..n}

\* sorted(set(xs))
RECURSIVE SortedOf(_)
SortedOf(S) ==
    IF S = {} THEN <<>>
    ELSE LET lo == CHOOSE x \in S : \A y \in S : x <= y
         IN  <<lo>> \o SortedOf(S \ {lo})

sorted_set(xs) == SortedOf(Range(xs))

-----------------------------------------------------------------------------
(* Configuration *)

DefaultCfg ==
    [sample_every |-> 3, min_group_len |-> 3, sharp_thr |-> 20,
     tau_inliers |-> 30, tau_v |-> 15, tau_u_min |-> 150, tau_u_max |-> 4000,
     tau_scale |-> 20, tau_parallax |-> 15,
     export_overlap_target |-> 40, stitch |-> FALSE,
     export_all_in_group |-> FALSE,
     min_pano_aspect_ratio |-> 120, max_black_border_percent |-> 15]

\* cfg.update(settings or {})
MergeCfg(settings) ==
    [k \in DOMAIN DefaultCfg |->
        IF k \in DOMAIN settings THEN settings[k] ELSE DefaultCfg[k]]

-----------------------------------------------------------------------------
(* Vision utilities *)

\* An image is represented by what the pipeline reads from it: the variance
\* of its Laplacian response.
\* variant: threshold inclusive
frame_is_sharp_ge(var, thr) == var >= thr

frame_is_sharp(var, thr) == var > thr

\* fidx % cfg["sample_every"] == 0  (the caller guards sample_every = 0,
\* where Python raises ZeroDivisionError)
on_stride(f, c) == f % c.sample_every = 0

\* A motion summary as returned by pair_motion_metrics; None is NoSummary.
NoSummary ==
    [present |-> FALSE, inlier_ratio |-> 0, median_u |-> 0, median_v |-> 0,
     resid |-> 0, scale |-> 0]

Summary(ir, u, v, r, s) ==
    [present |-> TRUE, inlier_ratio |-> ir, median_u |-> u, median_v |-> v,
     resid |-> r, scale |-> s]

\* variant: exclusive bounds
pan_ok_strict(m, c) ==
    /\ m.inlier_ratio > c.tau_inliers
    /\ Abs(m.median_v) < c.tau_v
    /\ c.tau_u_min < Abs(m.median_u)
    /\ Abs(m.median_u) < c.tau_u_max
    /\ Abs(m.scale - 1000) < c.tau_scale
    /\ m.resid < c.tau_parallax

\* the conjunction "ok" of is_horizontal_pan (lines 140-146)
pan_ok(m, c) ==
    /\ m.inlier_ratio >= c.tau_inliers
    /\ Abs(m.median_v) <= c.tau_v
    /\ c.tau_u_min <= Abs(m.median_u)
    /\ Abs(m.median_u) <= c.tau_u_max
    /\ Abs(m.scale - 1000) <= c.tau_scale
    /\ m.resid <= c.tau_parallax

\* The score as an exact fraction <<numerator, denominator>>:
\* 1.5*ir + 0.6*(1 - min(|v|/tau_v, 1)) + 0.4*(1 - min(|s-1|/tau_scale, 1))
\*        + 0.6*(1 - min(resid/tau_parallax, 1))
\* over the common denominator 1000 * tau_v * tau_scale * tau_parallax.
pan_score(m, c) ==
    LET tv == c.tau_v
        ts == c.tau_scale
        tp == c.tau_parallax
    IN  << 15 * m.inlier_ratio * tv * ts * tp
           + 600 * (tv - Min(Abs(m.median_v), tv)) * ts * tp
           + 400 * tv * (ts - Min(Abs(m.scale - 1000), ts)) * tp
           + 600 * tv * ts * (tp - Min(m.resid, tp)),
           1000 * tv * ts * tp >>

\* the divisions of the score raise ZeroDivisionError on a zero threshold
score_raises(c) == c.tau_v = 0 \/ c.tau_scale = 0 \/ c.tau_parallax = 0

is_horizontal_pan(m, c) ==
    IF ~m.present
    THEN [raised |-> FALSE, is_pan |-> FALSE, score |-> <<0, 1>>]
    ELSE IF score_raises(c)
    THEN [raised |-> TRUE, is_pan |-> FALSE, score |-> <<0, 1>>]
    ELSE [raised |-> FALSE, is_pan |-> pan_ok(m, c), score |-> pan_score(m, c)]

\* variant: an absent summary recorded as a pan
pair_entry_absent_pan(m, c) ==
    IF ~m.present
    THEN <<TRUE, <<0, 1>>, m>>
    ELSE LET r == is_horizontal_pan(m, c) IN <<r.is_pan, r.score, m>>

\* the entry the motion loop appends for summary m (lines 260-266)
pair_entry(m, c) ==
    IF ~m.present
    THEN <<FALSE, <<0, 1>>, m>>
    ELSE LET r == is_horizontal_pan(m, c) IN <<r.is_pan, r.score, m>>

-----------------------------------------------------------------------------
(* Frame sampling *)

\* variant: the capture is not checked
isOpened_unchecked(v) == TRUE

\* cap.isOpened()
isOpened(v) == v.openable

OpenVideo ==
    /\ pc = "open"
    /\ IF isOpened(video)
       THEN pc' = "sample" /\ error' = error
       ELSE pc' = "error" /\ error' = "RuntimeError"
    /\ fidx' = 0
    /\ sampled' = <<>>
    /\ UNCHANGED <<handlerVars, dagVars>>
    /\ UNCHANGED <<cfg, video, pair_metrics, i, j, direction, g,
                   raw_groups_count, groups, gid, export_idxs, step, pos,
                   exported_frame_uris, exported_frame_indices, storage,
                   stitch_calls,
                   results>>

\* one iteration of "while ok" (lines 242-249)
SampleFrameWith(c) ==
    /\ pc = "sample"
    /\ fidx < Len(video.frames)
    /\ IF c.sample_every = 0
       THEN /\ pc' = "error"
            /\ error' = "ZeroDivisionError"
            /\ UNCHANGED <<fidx, sampled>>
       ELSE /\ sampled' =
                IF /\ on_stride(fidx, c)
                   /\ frame_is_sharp(At(video.frames, fidx), c.sharp_thr)
                THEN Append(sampled, [frame_idx |-> fidx,
                                      var |-> At(video.frames, fidx)])
                ELSE sampled
            /\ fidx' = fidx + 1
            /\ UNCHANGED <<pc, error>>
    /\ UNCHANGED <<handlerVars, dagVars>>
    /\ UNCHANGED <<cfg, video, pair_metrics, i, j, direction, g,
                   raw_groups_count, groups, gid, export_idxs, step, pos,
                   exported_frame_uris, exported_frame_indices, storage,
                   stitch_calls,
                   results>>

SampleFrame == SampleFrameWith(cfg)

\* cap.read() reports no further frame; the motion loop starts
EndOfVideo ==
    /\ pc = "sample"
    /\ fidx >= Len(video.frames)
    /\ pc' = "motion"
    /\ pair_metrics' = <<>>
    /\ UNCHANGED <<handlerVars, dagVars>>
    /\ UNCHANGED <<error, cfg, video, fidx, sampled, i, j, direction, g,
                   raw_groups_count, groups, gid, export_idxs, step, pos,
                   exported_frame_uris, exported_frame_indices, storage,
                   stitch_calls,
                   results>>

-----------------------------------------------------------------------------
(* Pairwise motion analysis *)

\* one iteration of "for i in range(len(sampled) - 1)" (lines 256-266); the
\* summary of pair_motion_metrics is any element of S
EstimatePairWith(S, c) ==
    /\ pc = "motion"
    /\ Len(pair_metrics) < Len(sampled) - 1
    /\ \E m \in S :
          IF m.present /\ is_horizontal_pan(m, c).raised
          THEN /\ pc' = "error"
               /\ error' = "ZeroDivisionError"
               /\ UNCHANGED pair_metrics
          ELSE /\ pair_metrics' = Append(pair_metrics, pair_entry(m, c))
               /\ UNCHANGED <<pc, error>>
    /\ UNCHANGED <<handlerVars, dagVars>>
    /\ UNCHANGED <<cfg, video, fidx, sampled, i, j, direction, g,
                   raw_groups_count, groups, gid, export_idxs, step, pos,
                   exported_frame_uris, exported_frame_indices, storage,
                   stitch_calls,
                   results>>

EstimatePairFrom(S) == EstimatePairWith(S, cfg)

EndMotion ==
    /\ pc = "motion"
    /\ Len(pair_metrics) >= Len(sampled) - 1
    /\ pc' = "scan"
    /\ groups' = <<>>
    /\ i' = 0
    /\ raw_groups_count' = 0
    /\ UNCHANGED <<handlerVars, dagVars>>
    /\ UNCHANGED <<error, cfg, video, fidx, sampled, pair_metrics, j,
                   direction, g, gid, export_idxs, step, pos,
                   exported_frame_uris, exported_frame_indices, storage,
                   stitch_calls,
                   results>>

-----------------------------------------------------------------------------
(* Group building (lines 269-297) *)

\* variant: a zero displacement counted as leftward
direction_of_strict(m) == IF m.median_u > 0 THEN 1 ELSE -1

\* direction = 1 if m["median_u"] >= 0 else -1
direction_of(m) == IF m.median_u >= 0 THEN 1 ELSE -1

\* variant: no minimum length
long_enough_always(g2, c) == TRUE

\* variant: minimum length exclusive
long_enough_strict(g2, c) == Len(g2) > c.min_group_len

\* variant: a candidate still open at the end of the list is dropped
long_enough_unless_open(g2, c) ==
    Len(g2) >= c.min_group_len /\ j < Len(pair_metrics)

\* len(g) >= cfg["min_group_len"]
long_enough(g2, c) == Len(g2) >= c.min_group_len

\* variant: the scan resumes at the pair that ended the group
resume_index_at_break(j2) == j2

\* variant: the scan resumes two pairs after the one that ended the group
resume_index_skip(j2) == j2 + 2

\* i = j + 1
resume_index(j2) == j2 + 1

\* the inner loop reaches m2["median_u"] at pair j2 of the list pm with
\* m2 = None
subscripts_none(pm, j2) ==
    /\ j2 < Len(pm)
    /\ At(pm, j2)[1]
    /\ ~At(pm, j2)[3].present

\* variant: the inner loop ignores the direction
extends_any_direction(pm, j2, dir) ==
    /\ j2 < Len(pm)
    /\ At(pm, j2)[1]
    /\ At(pm, j2)[3].present

\* variant: a pair extends a group only if its score is at least 2
extends_min_score(pm, j2, dir) ==
    /\ j2 < Len(pm)
    /\ At(pm, j2)[1]
    /\ At(pm, j2)[3].present
    /\ direction_of(At(pm, j2)[3]) = dir
    /\ At(pm, j2)[2][1] >= 2 * At(pm, j2)[2][2]

\* the inner loop goes on at pair j2: no break at lines 285-290
extends(pm, j2, dir) ==
    /\ j2 < Len(pm)
    /\ At(pm, j2)[1]
    /\ At(pm, j2)[3].present
    /\ direction_of(At(pm, j2)[3]) = dir

\* one iteration of the outer loop over the list pm, up to the start of the
\* inner loop
ScanPairOn(pm) ==
    /\ pc = "scan"
    /\ i < Len(pm)
    /\ LET e == At(pm, i) IN
         IF ~e[1]
         THEN /\ i' = i + 1
              /\ UNCHANGED <<pc, error, j, direction, g, raw_groups_count>>
         ELSE IF ~e[3].present
         THEN \* m["median_u"] on None
              /\ pc' = "error"
              /\ error' = "TypeError"
              /\ raw_groups_count' = raw_groups_count + 1
              /\ UNCHANGED <<i, j, direction, g>>
         ELSE /\ raw_groups_count' = raw_groups_count + 1
              /\ direction' = direction_of(e[3])
              /\ g' = <<i, i + 1>>
              /\ j' = i + 1
              /\ pc' = "extend"
              /\ UNCHANGED <<i, error>>
    /\ UNCHANGED <<handlerVars, dagVars>>
    /\ UNCHANGED <<cfg, video, fidx, sampled, pair_metrics, groups, gid,
                   export_idxs, step, pos, exported_frame_uris,
                   exported_frame_indices, storage, stitch_calls, results>>

ScanPair == ScanPairOn(pair_metrics)

\* one iteration of the inner loop that appends (lines 283-292)
ExtendGroupOn(pm) ==
    /\ pc = "extend"
    /\ extends(pm, j, direction) \/ subscripts_none(pm, j)
    /\ IF subscripts_none(pm, j)
       THEN /\ pc' = "error"
            /\ error' = "TypeError"
            /\ UNCHANGED <<g, j>>
       ELSE /\ g' = Append(g, j + 1)
            /\ j' = j + 1
            /\ UNCHANGED <<pc, error>>
    /\ UNCHANGED <<handlerVars, dagVars>>
    /\ UNCHANGED <<cfg, video, fidx, sampled, pair_metrics, i, direction,
                   raw_groups_count, groups, gid, export_idxs, step, pos,
                   exported_frame_uris, exported_frame_indices, storage,
                   stitch_calls,
                   results>>

ExtendGroup == ExtendGroupOn(pair_metrics)

\* the inner loop ends (break or end of list); lines 293-297
CloseGroupOn(pm, c) ==
    /\ pc = "extend"
    /\ ~extends(pm, j, direction)
    /\ ~subscripts_none(pm, j)
    /\ g' = sorted_set(g)
    /\ groups' = IF long_enough(g', c)
                 THEN Append(groups, <<direction, g'>>)
                 ELSE groups
    /\ i' = resume_index(j)
    /\ pc' = "scan"
    /\ UNCHANGED <<handlerVars, dagVars>>
    /\ UNCHANGED <<error, cfg, video, fidx, sampled, pair_metrics, j,
                   direction, raw_groups_count, gid, export_idxs, step, pos,
                   exported_frame_uris, exported_frame_indices, storage,
                   stitch_calls,
                   results>>

CloseGroupWith(c) == CloseGroupOn(pair_metrics, c)

CloseGroup == CloseGroupWith(cfg)

\* the outer loop ends; results is initialised and the export loop starts
EndScanOn(pm) ==
    /\ pc = "scan"
    /\ i >= Len(pm)
    /\ pc' = "export"
    /\ results' = <<>>
    /\ gid' = 1
    /\ UNCHANGED <<handlerVars, dagVars>>
    /\ UNCHANGED <<error, cfg, video, fidx, sampled, pair_metrics, i, j,
                   direction, g, raw_groups_count, groups, export_idxs, step,
                   pos,
                   exported_frame_uris, exported_frame_indices, storage,
                   stitch_calls>>

EndScan == EndScanOn(pair_metrics)

-----------------------------------------------------------------------------
(* Export selection (lines 313-334) *)

\* the for loop of pick_subset over indices[k..], with out and last so far;
\* last = -1 stands for None (positions are >= 0)
RECURSIVE pick_loop(_, _, _, _, _)
pick_loop(indices, target_step, k, out, last) ==
    IF k > Len(indices) THEN out
    ELSE IF last = -1 \/ indices[k] - last >= target_step
         THEN pick_loop(indices, target_step, k + 1,
                        Append(out, indices[k]), indices[k])
         ELSE pick_loop(indices, target_step, k + 1, out, last)

\* variant: the final position is appended even if it was already kept
pick_subset_appends_last(indices, target_step) ==
    Append(pick_loop(indices, target_step, 1, <<>>, -1), Last(indices))

\* variant: the final position is not forced
pick_subset_no_last(indices, target_step) ==
    pick_loop(indices, target_step, 1, <<>>, -1)

pick_subset(indices, target_step) ==
    LET out == pick_loop(indices, target_step, 1, <<>>, -1)
    IN  IF Last(out) # Last(indices) THEN Append(out, Last(indices)) ELSE out

\* variant: a wider step
export_step_wide == Max(1, 3)

\* step = max(1, int(round(2)))
export_step == Max(1, 2)

-----------------------------------------------------------------------------
(* Export, stitching and the result record (lines 326-385) *)

\* gcs_join(prefix, "groups", f"group{gid:03d}", f"frame_{frame_idx:07d}.jpg")
frame_uri(gid2, frame_idx) ==
    [kind |-> "frame", group |-> gid2, frame |-> frame_idx]

\* gcs_join(prefix, "panos", f"group{gid:03d}.jpg")
pano_uri_of(gid2) == [kind |-> "pano", group |-> gid2, frame |-> -1]

NoUri == [kind |-> "none", group |-> 0, frame |-> -1]

\* the grey levels a stitched image is made of in this model
Levels == {9, 10, 200}

\* a stitched image: width, height and, per grey level, the number of its
\* pixels; n9 pixels have intensity 9, n10 have intensity 10, the rest 200
Pano(w, h, n9, n10) ==
    [width |-> w, height |-> h,
     hist |-> [l \in Levels |->
                 IF l = 9 THEN n9 ELSE IF l = 10 THEN n10
                 ELSE w * h - n9 - n10]]

RECURSIVE SumOver(_, _)
SumOver(S, f) ==
    IF S = {} THEN 0
    ELSE LET x == CHOOSE y \in S : TRUE IN f[x] + SumOver(S \ {x}, f)

\* np.sum(gray < 10)
black_pixels(pano) == SumOver({l \in Levels : l < 10}, pano.hist)

\* gray.size
total_pixels(pano) == pano.width * pano.height

\* variant: the aspect ratio must exceed the minimum
validate_panorama_quality_gt(pano, min_ratio, max_black) ==
    IF pano.width * 100 <= min_ratio * pano.height
    THEN FALSE
    ELSE black_pixels(pano) * 100 <= max_black * total_pixels(pano)

\* min_ratio is min_width_height_ratio in hundredths, max_black is
\* max_black_border_percent in percent
validate_panorama_quality(pano, min_ratio, max_black) ==
    IF pano.width * 100 < min_ratio * pano.height
    THEN FALSE
    ELSE black_pixels(pano) * 100 <= max_black * total_pixels(pano)

\* variant: the step is derived from the configured overlap (in percent)
step_for_overlap(c) == Max(1, (100 - c.export_overlap_target) \div 30)

\* step = max(1, int(round(2))) inside the loop over the groups
step_for(c) == export_step

\* variant: the position in the sampled list is taken for the frame number
original_index_position(sidx) == sidx

\* frame_idx, img = sampled[sidx]
original_index(sidx) == At(sampled, sidx).frame_idx

\* variant: the stitcher's status is not looked at
stitch_accepted_any_status(c, nimages, status, pano) ==
    /\ c.stitch
    /\ nimages >= 2
    /\ validate_panorama_quality(pano, c.min_pano_aspect_ratio,
                                 c.max_black_border_percent)

\* the conditions of lines 352, 355 and 361 under which pano_uri is set
stitch_accepted(c, nimages, status, pano) ==
    /\ c.stitch
    /\ nimages >= 2
    /\ status = "OK"
    /\ validate_panorama_quality(pano, c.min_pano_aspect_ratio,
                                 c.max_black_border_percent)

\* variant: a group without panorama loses its exported frames
group_result_drops_frames(gid2, dir, idxs, uris, accepted) ==
    [id |-> gid2,
     direction |-> IF dir = 1 THEN "right" ELSE "left",
     frame_indices |-> IF accepted THEN idxs ELSE <<>>,
     frame_uris |-> IF accepted THEN uris ELSE <<>>,
     has_pano |-> accepted,
     pano_uri |-> IF accepted THEN pano_uri_of(gid2) ELSE NoUri]

\* variant: ids are counted from 0
group_result_id_from_zero(gid2, dir, idxs, uris, accepted) ==
    [id |-> gid2 - 1,
     direction |-> IF dir = 1 THEN "right" ELSE "left",
     frame_indices |-> idxs,
     frame_uris |-> uris,
     has_pano |-> accepted,
     pano_uri |-> IF accepted THEN pano_uri_of(gid2) ELSE NoUri]

\* the GroupResult appended at lines 374-382
group_result(gid2, dir, idxs, uris, accepted) ==
    [id |-> gid2,
     direction |-> IF dir = 1 THEN "right" ELSE "left",
     frame_indices |-> idxs,
     frame_uris |-> uris,
     has_pano |-> accepted,
     pano_uri |-> IF accepted THEN pano_uri_of(gid2) ELSE NoUri]

\* start of one iteration of "for gid, (direction, sampled_idxs)"
SelectExportWith(c) ==
    /\ pc = "export"
    /\ gid <= Len(groups)
    /\ step' = IF c.export_all_in_group THEN step ELSE step_for(c)
    /\ export_idxs' = IF c.export_all_in_group
                      THEN groups[gid][2]
                      ELSE pick_subset(groups[gid][2], step')
    /\ exported_frame_uris' = <<>>
    /\ exported_frame_indices' = <<>>
    /\ pos' = 0
    /\ pc' = "upload"
    /\ UNCHANGED <<handlerVars, dagVars>>
    /\ UNCHANGED <<error, cfg, video, fidx, sampled, pair_metrics, i, j,
                   direction, g, raw_groups_count, groups, gid, storage,
                   stitch_calls,
                   results>>

SelectExport == SelectExportWith(cfg)

\* one iteration of "for sidx in export_idxs" whose upload succeeds
UploadFrame ==
    /\ pc = "upload"
    /\ pos < Len(export_idxs)
    /\ LET frame_idx == original_index(At(export_idxs, pos))
           uri == frame_uri(gid, frame_idx)
       IN  /\ storage' = storage \cup {uri}
           /\ exported_frame_uris' = Append(exported_frame_uris, uri)
           /\ exported_frame_indices' =
                  Append(exported_frame_indices, frame_idx)
    /\ pos' = pos + 1
    /\ UNCHANGED <<handlerVars, dagVars>>
    /\ UNCHANGED <<pc, error, cfg, video, fidx, sampled, pair_metrics, i, j,
                   direction, g, raw_groups_count, groups, gid, export_idxs,
                   step, stitch_calls, results>>

\* variant: a failed upload ends the run with the groups recorded so far
UploadFails_returns_partial ==
    /\ pc = "upload"
    /\ pos < Len(export_idxs)
    /\ pc' = "done"
    /\ UNCHANGED <<handlerVars, dagVars>>
    /\ UNCHANGED <<error, cfg, video, fidx, sampled, pair_metrics, i, j,
                   direction, g, raw_groups_count, groups, gid, export_idxs,
                   step, pos, exported_frame_uris, exported_frame_indices,
                   storage, stitch_calls, results>>

\* save_frame_to_gcs raises; the exception leaves the function
UploadFails ==
    /\ pc = "upload"
    /\ pos < Len(export_idxs)
    /\ pc' = "error"
    /\ error' = "UploadError"
    /\ UNCHANGED <<handlerVars, dagVars>>
    /\ UNCHANGED <<cfg, video, fidx, sampled, pair_metrics, i, j, direction,
                   g, raw_groups_count, groups, gid, export_idxs, step, pos,
                   exported_frame_uris, exported_frame_indices, storage,
                   stitch_calls,
                   results>>

\* lines 351-382: the optional stitch, the quality gate, the panorama upload
\* and the GroupResult; the stitcher returns any status and any image of P
StitchAndRecordWith(P, c) ==
    /\ pc = "upload"
    /\ pos >= Len(export_idxs)
    /\ \E status \in {"OK", "ERR"}, pano \in P, uploaded \in BOOLEAN :
         LET called == c.stitch /\ Len(export_idxs) >= 2
             accepted == stitch_accepted(c, Len(export_idxs), status, pano)
         IN  /\ stitch_calls' =
                    IF called
                    THEN Append(stitch_calls,
                                [gid |-> gid, images |-> export_idxs,
                                 status |-> status, pano |-> pano])
                    ELSE stitch_calls
             /\ IF accepted /\ ~uploaded
                THEN /\ pc' = "error"
                     /\ error' = "UploadError"
                     /\ UNCHANGED <<storage, results, gid>>
                ELSE /\ storage' = IF accepted
                                   THEN storage \cup {pano_uri_of(gid)}
                                   ELSE storage
                     /\ results' = Append(results,
                            group_result(gid, groups[gid][1],
                                         exported_frame_indices,
                                         exported_frame_uris, accepted))
                     /\ gid' = gid + 1
                     /\ pc' = "export"
                     /\ UNCHANGED error
    /\ UNCHANGED <<handlerVars, dagVars>>
    /\ UNCHANGED <<cfg, video, fidx, sampled, pair_metrics, i, j, direction,
                   g, raw_groups_count, groups, export_idxs, step, pos,
                   exported_frame_uris, exported_frame_indices>>

StitchAndRecordFrom(P) == StitchAndRecordWith(P, cfg)

\* return results
ReturnResults ==
    /\ pc = "export"
    /\ gid > Len(groups)
    /\ pc' = "done"
    /\ UNCHANGED <<handlerVars, dagVars>>
    /\ UNCHANGED <<error, cfg, video, fidx, sampled, pair_metrics, i, j,
                   direction, g, raw_groups_count, groups, gid, export_idxs,
                   step,
                   pos, exported_frame_uris, exported_frame_indices, storage,
                   stitch_calls,
                   results>>

-----------------------------------------------------------------------------
(* JSON values and the request of extract_pans (main.py)                    *)

\* the keys of a request object that extract_pans reads
FieldNames == {"video_gcs_uri", "output_prefix", "settings"}

\* A parsed JSON value: its type, its size (the number itself, 0 or 1 for
\* a boolean, the length of a string or a list, the number of keys of an
\* object), the keys of an object and the type of its "settings" member.
JsonValue(type, size, keys, settings_type) ==
    [type |-> type, size |-> size, keys |-> keys, settings |-> settings_type]

Undefined == JsonValue("undefined", 0, {}, "absent")

\* null, false, true, 0, 5, "", "a", [], [1]
JsonScalarsAndLists ==
    {JsonValue("null", 0, {}, "absent")} \cup
    {JsonValue(t, n, {}, "absent") :
        t \in {"bool", "number", "string", "array"}, n \in {0, 1}}

\* objects over the three keys; a "settings" member is null, an object or a
\* non-empty list
JsonObjects ==
    {JsonValue("object", Cardinality(K), K, st) :
        K \in SUBSET FieldNames, st \in {"absent"}} \cup
    {JsonValue("object", Cardinality(K), K, st) :
        K \in {K2 \in SUBSET FieldNames : "settings" \in K2},
        st \in {"null", "object", "array"}}

JsonValues == JsonScalarsAndLists \cup JsonObjects

Methods == {"GET", "POST", "PUT"}

\* a request: its method and its body, which parses to a JSON value or not
Requests ==
    {[method |-> m, valid |-> TRUE, value |-> v] :
        m \in Methods, v \in JsonValues} \cup
    {[method |-> m, valid |-> FALSE, value |-> Undefined] : m \in Methods}

NoRequest == [method |-> "none", valid |-> FALSE, value |-> Undefined]

NoResponse == [status |-> 0, body |-> "none"]

\* extract_pans is not being called
HandlerIdle ==
    /\ hpc = "idle"
    /\ request = NoRequest
    /\ payload = Undefined
    /\ local_path = ""
    /\ tmp_files = {}
    /\ outcome = "none"
    /\ response = NoResponse

-----------------------------------------------------------------------------
(* The tasks of agent_loop_implement.py                                     *)

\* implement_background_tasks and every task it is written to depend on,
\* directly or through other tasks, in the order the script creates them
TaskOrder ==
    << "create_dirs", "define_common_types", "define_compaction_policy",
       "define_conversation_entry", "define_context_entry",
       "define_app_state", "implement_background_tasks",
       "implement_context_eval_compaction" >>

TaskIds == {TaskOrder[k] : k \in DOMAIN TaskOrder}

\* execute_dag is not being called
DagIdle ==
    /\ dpc = "idle"
    /\ completed = {}
    /\ failed = {}
    /\ ready = <<>>
    /\ in_progress = {}
    /\ runnable_tasks = <<>>
    /\ batch_results = [t \in TaskIds |-> "none"]
    /\ start_count = [t \in TaskIds |-> 0]

-----------------------------------------------------------------------------
(* Inputs *)

\* a video that opens, given by the sharpness variance of each frame
Video(frames) == [openable |-> TRUE, frames |-> frames]

NoVideo == [openable |-> FALSE, frames |-> <<>>]

\* variances around the default sharp_thr
Variances == {DefaultCfg.sharp_thr - 1, DefaultCfg.sharp_thr,
              DefaultCfg.sharp_thr + 1}

SharpVar == DefaultCfg.sharp_thr + 1

\* values just below, at and just above a threshold
Around(t) == {t - 1, t, t + 1}

PanRight == Summary(80, 200, 0, 5, 1000)

PanLeft == Summary(80, -200, 0, 5, 1000)

\* a present summary of two identical images: no displacement
Still == Summary(90, 0, 0, 0, 1000)

Summaries == {NoSummary, PanRight, PanLeft, Still}

\* summaries on and around every threshold of the default configuration
BoundarySummaries ==
    {NoSummary} \cup
    {Summary(ir, u * sgn, v, r, 1000 + ds) :
        ir \in Around(DefaultCfg.tau_inliers),
        u \in {0} \cup Around(DefaultCfg.tau_u_min)
                  \cup Around(DefaultCfg.tau_u_max),
        sgn \in {-1, 1},
        v \in {-DefaultCfg.tau_v - 1, -DefaultCfg.tau_v, 0,
               DefaultCfg.tau_v, DefaultCfg.tau_v + 1},
        r \in Around(DefaultCfg.tau_parallax),
        ds \in {-DefaultCfg.tau_scale - 1, -DefaultCfg.tau_scale, 0,
                DefaultCfg.tau_scale, DefaultCfg.tau_scale + 1}}

\* a wide clean image, a square one, and a wide one with 20% black pixels
Panos == {Pano(20, 10, 10, 0), Pano(10, 10, 0, 0), Pano(20, 10, 40, 0)}

Blank ==
    /\ error = "none"
    /\ fidx = 0
    /\ sampled = <<>>
    /\ pair_metrics = <<>>
    /\ i = 0
    /\ j = 0
    /\ direction = 0
    /\ g = <<>>
    /\ raw_groups_count = 0
    /\ groups = <<>>
    /\ gid = 0
    /\ export_idxs = <<>>
    /\ pos = 0
    /\ step = 0
    /\ exported_frame_uris = <<>>
    /\ exported_frame_indices = <<>>
    /\ storage = {}
    /\ stitch_calls = <<>>
    /\ results = <<>>
    /\ HandlerIdle
    /\ DagIdle

\* the state after sampling a video whose frames are all sharp and which
\* yields n sampled frames
AfterSampling(n, c) ==
    LET nframes == IF n = 0 THEN 0 ELSE (n - 1) * c.sample_every + 1 IN
    /\ pc = "motion"
    /\ cfg = c
    /\ video = Video([k \in 1..nframes |-> SharpVar])
    /\ error = "none"
    /\ fidx = nframes
    /\ sampled = [k \in 1..n |->
                    [frame_idx |-> (k - 1) * c.sample_every, var |-> SharpVar]]
    /\ pair_metrics = <<>>
    /\ i = 0
    /\ j = 0
    /\ direction = 0
    /\ g = <<>>
    /\ raw_groups_count = 0
    /\ groups = <<>>
    /\ gid = 0
    /\ export_idxs = <<>>
    /\ pos = 0
    /\ step = 0
    /\ exported_frame_uris = <<>>
    /\ exported_frame_indices = <<>>
    /\ storage = {}
    /\ stitch_calls = <<>>
    /\ results = <<>>
    /\ HandlerIdle
    /\ DagIdle

-----------------------------------------------------------------------------
(* The whole pipeline on small videos *)

Settings ==
    [sample_every : {1, 2}, min_group_len : {2, 3}, stitch : BOOLEAN,
     export_all_in_group : BOOLEAN]

Init ==
    /\ pc = "open"
    /\ cfg \in {MergeCfg(s) : s \in Settings}
    /\ video \in {NoVideo} \cup
                 {Video(f) : f \in SeqsUpTo({SharpVar - 1, SharpVar}, MaxFrames)}
    /\ Blank

EstimatePair == EstimatePairFrom(Summaries)

StitchAndRecord == StitchAndRecordFrom(Panos)

Next ==
    \/ OpenVideo
    \/ SampleFrame
    \/ EndOfVideo
    \/ EstimatePair
    \/ EndMotion
    \/ ScanPair
    \/ ExtendGroup
    \/ CloseGroup
    \/ EndScan
    \/ SelectExport
    \/ UploadFrame
    \/ UploadFails
    \/ StitchAndRecord
    \/ ReturnResults

Spec == Init /\ [][Next]_vars

\* the function runs sequentially: a step that can be taken is taken
FairSpec == Spec /\ WF_vars(Next)

-----------------------------------------------------------------------------
(* Frame sampling on every video of up to MaxFramesS frames *)

InitSample ==
    /\ pc = "open"
    /\ cfg \in {MergeCfg([sample_every |-> k]) : k \in 0..3}
    /\ video \in {NoVideo} \cup
                 {Video(f) : f \in SeqsUpTo(Variances, MaxFramesS)}
    /\ Blank

NextSample == OpenVideo \/ SampleFrame \/ EndOfVideo

SpecSample == InitSample /\ [][NextSample]_vars

-----------------------------------------------------------------------------
(* Motion analysis, group building and export on every classification      *)
(* sequence of up to MaxPairs pairs                                         *)

InitGroups ==
    \E n \in 0..(MaxPairs + 1), mgl \in 0..MaxMinLen,
       umin \in {0, DefaultCfg.tau_u_min}, all \in BOOLEAN :
        AfterSampling(n, MergeCfg([min_group_len |-> mgl, tau_u_min |-> umin,
                                   export_all_in_group |-> all]))

NextGroups ==
    \/ EstimatePair
    \/ EndMotion
    \/ ScanPair
    \/ ExtendGroup
    \/ CloseGroup
    \/ EndScan
    \/ SelectExport
    \/ UploadFrame
    \/ UploadFails
    \/ StitchAndRecord
    \/ ReturnResults

SpecGroups == InitGroups /\ [][NextGroups]_vars

-----------------------------------------------------------------------------
(* The classifier on summaries around every threshold *)

ThresholdSettings ==
    {[tau_u_min |-> DefaultCfg.tau_u_min], [tau_u_min |-> 0], [tau_v |-> 0],
     [tau_scale |-> 0], [tau_parallax |-> 0]}

InitClassify ==
    \E s \in ThresholdSettings : AfterSampling(2, MergeCfg(s))

EstimateBoundaryPair == EstimatePairFrom(BoundarySummaries)

NextClassify == EstimateBoundaryPair \/ EndMotion

SpecClassify == InitClassify /\ [][NextClassify]_vars

-----------------------------------------------------------------------------
(* pick_subset on every strictly increasing list and every step *)

IncreasingLists == {SortedOf(S) : S \in (SUBSET (0..MaxIdx)) \ {{}}}

InitPick ==
    /\ pc = "pick"
    /\ cfg = DefaultCfg
    /\ video = NoVideo
    /\ error = "none"
    /\ fidx = 0
    /\ sampled = <<>>
    /\ pair_metrics = <<>>
    /\ i = 0
    /\ j = 0
    /\ direction = 1
    /\ g \in IncreasingLists
    /\ raw_groups_count = 1
    /\ groups = <<>>
    /\ gid = 1
    /\ export_idxs = <<>>
    /\ pos = 0
    /\ step \in 1..MaxStep
    /\ exported_frame_uris = <<>>
    /\ exported_frame_indices = <<>>
    /\ storage = {}
    /\ stitch_calls = <<>>
    /\ results = <<>>
    /\ HandlerIdle
    /\ DagIdle

\* export_idxs = pick_subset(sampled_idxs, step) applied to the list g
ApplyPickSubset ==
    /\ pc = "pick"
    /\ export_idxs' = pick_subset(g, step)
    /\ pc' = "picked"
    /\ UNCHANGED <<handlerVars, dagVars>>
    /\ UNCHANGED <<error, cfg, video, fidx, sampled, pair_metrics, i, j,
                   direction, g, raw_groups_count, groups, gid, pos, step,
                   exported_frame_uris, exported_frame_indices, storage,
                   stitch_calls,
                   results>>

NextPick == ApplyPickSubset

SpecPick == InitPick /\ [][NextPick]_vars

-----------------------------------------------------------------------------
(* The quality gate on stitched images around its two thresholds *)

\* images 10 pixels high whose aspect ratio is below, at and above 1.2 and
\* whose pixels of intensity 9 are none, 15%, just above 15%, or 20%; with
\* and without pixels of intensity exactly 10
BoundaryPanos ==
    {Pano(w, 10, n9, n10) :
        w \in {10, 11, 12, 13, 20},
        n9 \in {0, 15, 16, 18, 19, 20, 22, 24, 26, 30, 31, 40},
        n10 \in {0, 5}}

GatePanos ==
    {p \in BoundaryPanos :
        LET total == p.width * p.height
            n9 == p.hist[9]
        IN  n9 \in {0, (15 * total) \div 100, (15 * total) \div 100 + 1,
                    total \div 5}}

GateSettings ==
    [min_group_len : {2}, stitch : {TRUE},
     min_pano_aspect_ratio : {100, DefaultCfg.min_pano_aspect_ratio},
     max_black_border_percent : {0, DefaultCfg.max_black_border_percent}]

InitGate == \E s \in GateSettings : AfterSampling(3, MergeCfg(s))

StitchAndRecordGate == StitchAndRecordFrom(GatePanos)

NextGate ==
    \/ EstimatePair
    \/ EndMotion
    \/ ScanPair
    \/ ExtendGroup
    \/ CloseGroup
    \/ EndScan
    \/ SelectExport
    \/ UploadFrame
    \/ UploadFails
    \/ StitchAndRecordGate
    \/ ReturnResults

SpecGate == InitGate /\ [][NextGate]_vars

-----------------------------------------------------------------------------
(* The end-to-end example: 30 sharp frames of a steady rightward pan *)

\* rightward pans of 20 px and of 60 px between sampled frames
RightPans == {PanRight, Summary(80, 600, 0, 5, 1000)}

InitE2E ==
    /\ pc = "open"
    /\ cfg \in {MergeCfg([stitch |-> b]) : b \in BOOLEAN}
    /\ video = Video([k \in 1..30 |-> SharpVar])
    /\ Blank

EstimateRightPan == EstimatePairFrom(RightPans)

NextE2E ==
    \/ OpenVideo
    \/ SampleFrame
    \/ EndOfVideo
    \/ EstimateRightPan
    \/ EndMotion
    \/ ScanPair
    \/ ExtendGroup
    \/ CloseGroup
    \/ EndScan
    \/ SelectExport
    \/ UploadFrame
    \/ UploadFails
    \/ StitchAndRecord
    \/ ReturnResults

SpecE2E == InitE2E /\ [][NextE2E]_vars

-----------------------------------------------------------------------------
(* The whole pipeline under several values of export_overlap_target *)

\* export_overlap_target in percent: none, the default, and 90%
OverlapTargets == {0, DefaultCfg.export_overlap_target, 90}

OverlapSettings ==
    [sample_every : {1}, min_group_len : {2},
     export_overlap_target : OverlapTargets, stitch : BOOLEAN,
     export_all_in_group : BOOLEAN]

InitOverlap ==
    /\ pc = "open"
    /\ cfg \in {MergeCfg(s) : s \in OverlapSettings}
    /\ video \in {NoVideo} \cup
                 {Video(f) : f \in SeqsUpTo({SharpVar - 1, SharpVar}, MaxFrames)}
    /\ Blank

SpecOverlap == InitOverlap /\ [][Next]_vars

\* the steps of Next when the function runs with configuration c
NextWith(c) ==
    \/ OpenVideo
    \/ SampleFrameWith(c)
    \/ EndOfVideo
    \/ EstimatePairWith(Summaries, c)
    \/ EndMotion
    \/ ScanPair
    \/ ExtendGroup
    \/ CloseGroupWith(c)
    \/ EndScan
    \/ SelectExportWith(c)
    \/ UploadFrame
    \/ UploadFails
    \/ StitchAndRecordWith(Panos, c)
    \/ ReturnResults

-----------------------------------------------------------------------------
(* Group building on classifications with different scores *)

\* a rightward and a leftward pan with a low score (1.2 instead of 2.6)
PanRightWeak == Summary(40, 600, 10, 10, 1010)

PanLeftWeak == Summary(40, -600, 10, 10, 1010)

\* a leftward displacement with too much vertical motion: not a pan
Shake == Summary(80, -200, 100, 5, 1000)

ScoredSummaries ==
    {NoSummary, Still, Shake, PanRight, PanRightWeak, PanLeft, PanLeftWeak}

InitScore ==
    \E n \in 0..MaxPairs, mgl \in {2, 3} :
        AfterSampling(n, MergeCfg([min_group_len |-> mgl]))

EstimateScoredPair == EstimatePairFrom(ScoredSummaries)

NextScore ==
    \/ EstimateScoredPair
    \/ EndMotion
    \/ ScanPair
    \/ ExtendGroup
    \/ CloseGroup
    \/ EndScan
    \/ SelectExport
    \/ UploadFrame
    \/ UploadFails
    \/ StitchAndRecord
    \/ ReturnResults

SpecScore == InitScore /\ [][NextScore]_vars

\* the steps of the group-building loops when they run over the list pm
ScanStepOn(pm) ==
    \/ ScanPairOn(pm)
    \/ ExtendGroupOn(pm)
    \/ CloseGroupOn(pm, cfg)
    \/ EndScanOn(pm)

-----------------------------------------------------------------------------
(* The motion loop with its iterations run in any order *)

\* pair_motion_metrics keeps no state between calls (lines 81-135 use local
\* names only), so its summary is determined by the two images: the video
\* carries, for every sampled pair, the summary of that pair's images
VideoWithMotion(nframes, motion) ==
    [openable |-> TRUE, frames |-> [k \in 1..nframes |-> SharpVar],
     motion |-> motion]

\* an entry of the classification list that no iteration has written yet
Pending == <<FALSE, <<-1, 1>>, NoSummary>>

\* variant: iteration p is given the images of the following pair
pair_input_shifted(p) == At(video.motion, Min(p + 1, Len(video.motion) - 1))

\* pair_motion_metrics(sampled[p][1], sampled[p + 1][1], cfg["feature"])
pair_input(p) == At(video.motion, p)

InitParallel ==
    \E n \in 0..MaxPairs, mgl \in {2, 3} :
        LET c == MergeCfg([min_group_len |-> mgl])
            npairs == Max(n - 1, 0)
            nframes == IF n = 0 THEN 0 ELSE (n - 1) * c.sample_every + 1
        IN  /\ pc = "motion"
            /\ cfg = c
            /\ video \in {VideoWithMotion(nframes, mo) :
                             mo \in [1..npairs -> Summaries]}
            /\ sampled = [k \in 1..n |->
                            [frame_idx |-> (k - 1) * c.sample_every,
                             var |-> SharpVar]]
            /\ pair_metrics = [k \in 1..npairs |-> Pending]
            /\ error = "none"
            /\ fidx = nframes
            /\ i = 0
            /\ j = 0
            /\ direction = 0
            /\ g = <<>>
            /\ raw_groups_count = 0
            /\ groups = <<>>
            /\ gid = 0
            /\ export_idxs = <<>>
            /\ pos = 0
            /\ step = 0
            /\ exported_frame_uris = <<>>
            /\ exported_frame_indices = <<>>
            /\ storage = {}
            /\ stitch_calls = <<>>
            /\ results = <<>>
            /\ HandlerIdle
            /\ DagIdle

\* the body of the motion loop (lines 257-266) for pair p, run by a worker
\* that writes entry p of the list
WorkerEstimate(p) ==
    /\ pc = "motion"
    /\ p \in 0..(Len(pair_metrics) - 1)
    /\ At(pair_metrics, p) = Pending
    /\ LET m == pair_input(p) IN
          IF m.present /\ is_horizontal_pan(m, cfg).raised
          THEN /\ pc' = "error"
               /\ error' = "ZeroDivisionError"
               /\ UNCHANGED pair_metrics
          ELSE /\ pair_metrics' =
                     [pair_metrics EXCEPT ![p + 1] = pair_entry(m, cfg)]
               /\ UNCHANGED <<pc, error>>
    /\ UNCHANGED <<handlerVars, dagVars>>
    /\ UNCHANGED <<cfg, video, fidx, sampled, i, j, direction, g,
                   raw_groups_count, groups, gid, export_idxs, step, pos,
                   exported_frame_uris, exported_frame_indices, storage,
                   stitch_calls, results>>

\* every worker has written its entry; the sequential scan starts
JoinWorkers ==
    /\ \A p \in 0..(Len(pair_metrics) - 1) : At(pair_metrics, p) # Pending
    /\ EndMotion

NextParallel ==
    \/ \E p \in 0..(MaxPairs - 1) : WorkerEstimate(p)
    \/ JoinWorkers
    \/ ScanPair
    \/ ExtendGroup
    \/ CloseGroup
    \/ EndScan

SpecParallel == InitParallel /\ [][NextParallel]_vars

-----------------------------------------------------------------------------
(* Group building and export with stitching on, for every min_group_len *)

InitMinLen ==
    \E n \in 0..MaxPairs, mgl \in 0..MaxMinLen, all \in BOOLEAN :
        AfterSampling(n, MergeCfg([min_group_len |-> mgl, stitch |-> TRUE,
                                   export_all_in_group |-> all]))

SpecMinLen == InitMinLen /\ [][NextGroups]_vars

\* the loops of the group builder run to their end
FairScore == SpecScore /\ WF_vars(NextScore)

-----------------------------------------------------------------------------
(* The HTTP entry point extract_pans (main.py, lines 39-74)                 *)

\* detect_pan_groups_from_video is not being called
LibIdle ==
    /\ pc = "idle"
    /\ cfg = DefaultCfg
    /\ video = NoVideo
    /\ error = "none"
    /\ fidx = 0
    /\ sampled = <<>>
    /\ pair_metrics = <<>>
    /\ i = 0
    /\ j = 0
    /\ direction = 0
    /\ g = <<>>
    /\ raw_groups_count = 0
    /\ groups = <<>>
    /\ gid = 0
    /\ export_idxs = <<>>
    /\ pos = 0
    /\ step = 0
    /\ exported_frame_uris = <<>>
    /\ exported_frame_indices = <<>>
    /\ storage = {}
    /\ stitch_calls = <<>>
    /\ results = <<>>

\* bool(v) of Python: None, False, 0, "", [] and {} are false
truthy(v) == v.type # "null" /\ v.size # 0

\* v.keys(): only a dict has the attribute
keys_result(v) == IF v.type = "object" THEN "keys" ELSE "AttributeError"

\* v[k] for a string k: a dict gives the member or KeyError; None, a bool
\* and a number are not subscriptable, a string and a list take integer
\* indices only
getitem_result(v, k) ==
    IF v.type = "object"
    THEN IF k \in v.keys THEN "value" ELSE "KeyError"
    ELSE "TypeError"

\* payload.get("settings", {})
get_settings(v) == IF "settings" \in v.keys THEN v.settings ELSE "object"

\* the path mkstemp hands out
TmpPath == "/tmp/video"

\* "ok": the file is written and its path returned; "not_found": an
\* exception before mkstemp (bad uri, missing object); "download_error":
\* an exception of download_to_filename, after mkstemp created the file
DownloadOutcomes == {"ok", "not_found", "download_error"}

\* detect_pan_groups_from_video returns the result record or raises
ProcessOutcomes == {"results", "raises"}

Respond(status, body) ==
    /\ response' = [status |-> status, body |-> body]
    /\ hpc' = "returned"

\* lines 39-41
CheckMethod ==
    /\ hpc = "entry"
    /\ IF request.method # "POST"
       THEN Respond(405, "error")
       ELSE hpc' = "parse" /\ UNCHANGED response
    /\ UNCHANGED <<request, payload, local_path, tmp_files, outcome>>
    /\ UNCHANGED <<libVars, dagVars>>

\* lines 43-48: get_json raises on a body that is not JSON; the log line
\* calls payload.keys() when payload is true
GetJson ==
    /\ hpc = "parse"
    /\ IF ~request.valid
       THEN Respond(400, "error") /\ UNCHANGED payload
       ELSE /\ payload' = request.value
            /\ IF truthy(request.value)
                  /\ keys_result(request.value) = "AttributeError"
               THEN Respond(400, "error")
               ELSE hpc' = "fields" /\ UNCHANGED response
    /\ UNCHANGED <<request, local_path, tmp_files, outcome>>
    /\ UNCHANGED <<libVars, dagVars>>

\* lines 50-58: only KeyError is caught
ReadFields ==
    /\ hpc = "fields"
    /\ LET r1 == getitem_result(payload, "video_gcs_uri")
           r2 == getitem_result(payload, "output_prefix")
           raised == IF r1 # "value" THEN r1
                     ELSE IF r2 # "value" THEN r2 ELSE "none"
       IN  CASE raised = "none" ->
                    hpc' = "download" /\ UNCHANGED <<response, outcome>>
             [] raised = "KeyError" ->
                    Respond(400, "error") /\ UNCHANGED outcome
             [] OTHER ->
                    /\ hpc' = "raised"
                    /\ outcome' = raised
                    /\ UNCHANGED response
    /\ UNCHANGED <<request, payload, local_path, tmp_files>>
    /\ UNCHANGED <<libVars, dagVars>>

\* line 62, lib.py lines 36-46
Download ==
    /\ hpc = "download"
    /\ \E d \in DownloadOutcomes :
        /\ tmp_files' = IF d = "not_found" THEN tmp_files
                        ELSE tmp_files \cup {TmpPath}
        /\ IF d = "ok"
           THEN /\ local_path' = TmpPath
                /\ hpc' = "process"
                /\ UNCHANGED outcome
           ELSE /\ outcome' = "download_failed"
                /\ hpc' = "except"
                /\ UNCHANGED local_path
    /\ UNCHANGED <<request, payload, response>>
    /\ UNCHANGED <<libVars, dagVars>>

\* lines 64-66; cfg.update(settings or {}) of lib.py raises on a non-empty
\* list
Process ==
    /\ hpc = "process"
    /\ \E o \in ProcessOutcomes :
        /\ get_settings(payload) = "array" => o = "raises"
        /\ outcome' = IF o = "results" THEN "processed" ELSE "process_failed"
    /\ hpc' = "finally"
    /\ UNCHANGED <<request, payload, local_path, tmp_files, response>>
    /\ UNCHANGED <<libVars, dagVars>>

\* lines 67-70
Finally ==
    /\ hpc = "finally"
    /\ tmp_files' = IF local_path \in tmp_files
                    THEN tmp_files \ {local_path}
                    ELSE tmp_files
    /\ hpc' = IF outcome = "processed" THEN "return" ELSE "except"
    /\ UNCHANGED <<request, payload, local_path, outcome, response>>
    /\ UNCHANGED <<libVars, dagVars>>

\* line 71
AnswerResults ==
    /\ hpc = "return"
    /\ Respond(200, "results")
    /\ UNCHANGED <<request, payload, local_path, tmp_files, outcome>>
    /\ UNCHANGED <<libVars, dagVars>>

\* lines 72-74
HandleException ==
    /\ hpc = "except"
    /\ Respond(500, "error")
    /\ UNCHANGED <<request, payload, local_path, tmp_files, outcome>>
    /\ UNCHANGED <<libVars, dagVars>>

InitHandler ==
    /\ hpc = "entry"
    /\ request \in Requests
    /\ payload = Undefined
    /\ local_path = ""
    /\ tmp_files = {}
    /\ outcome = "none"
    /\ response = NoResponse
    /\ LibIdle
    /\ DagIdle

NextHandler ==
    \/ CheckMethod
    \/ GetJson
    \/ ReadFields
    \/ Download
    \/ Process
    \/ Finally
    \/ AnswerResults
    \/ HandleException

SpecHandler == InitHandler /\ [][NextHandler]_vars

-----------------------------------------------------------------------------
(* The task executor execute_dag (agent_loop_implement.py, lines 323-517)   *)

\* The entries of the dependency_map literal whose key is one of TaskIds, in
\* the order they are written (lines 324, 325, 332, 333 and 349).
dependency_map_literal ==
    << <<"define_common_types", {"create_dirs"}>>,
       <<"define_compaction_policy", {"create_dirs", "define_common_types"}>>,
       <<"define_conversation_entry", {"create_dirs", "define_common_types"}>>,
       <<"define_context_entry", {"create_dirs", "define_common_types"}>>,
       <<"define_app_state", {"create_dirs", "define_common_types"}>>,
       <<"implement_background_tasks", {"create_dirs", "define_app_state"}>>,
       <<"implement_context_eval_compaction",
         {"create_dirs", "define_conversation_entry", "define_context_entry",
          "define_compaction_policy"}>>,
       <<"implement_background_tasks",
         {"implement_context_eval_compaction"}>> >>

\* the positions of the literal written for a key
EntriesFor(entries, key) == {k \in DOMAIN entries : entries[k][1] = key}

\* A Python dict display: a key written more than once keeps the value of
\* its last entry.
dict_display(entries) ==
    [key \in {entries[k][1] : k \in DOMAIN entries} |->
        LET last == CHOOSE k \in EntriesFor(entries, key) :
                        \A k2 \in EntriesFor(entries, key) : k2 <= k
        IN  entries[last][2]]

dependency_map == dict_display(dependency_map_literal)

\* tasks[t].dependencies after the loop of lines 353-362
dependencies(t) ==
    IF t \in DOMAIN dependency_map
    THEN dependency_map[t] \cap TaskIds
    ELSE {}

\* tasks[t].dependents after the loop of lines 353-362
dependents(t) == {d \in TaskIds : t \in dependencies(d)}

ToSet(seq) == {seq[k] : k \in DOMAIN seq}

\* the orders in which a set can be iterated
OrdersOf(S) ==
    {q \in [1..Cardinality(S) -> S] : \A t \in S : \E k \in DOMAIN q : q[k] = t}

\* all(dep in completed for dep in tasks[tid].dependencies)
deps_met(tid, done) == dependencies(tid) \subseteq done

RECURSIVE drain(_, _, _, _)
\* The for loop of lines 416-426 over the first n entries of the queue:
\* the batch collected and the queue left behind.
drain(queue, n, runnable, processed) ==
    IF n = 0 THEN [runnable |-> runnable, ready |-> queue]
    ELSE LET tid == Head(queue)
             rest == Tail(queue)
         IN  IF \/ tid \in completed
                \/ tid \in failed
                \/ tid \in in_progress
                \/ tid \in processed
             THEN drain(rest, n - 1, runnable, processed)
             ELSE IF deps_met(tid, completed)
             THEN drain(rest, n - 1, Append(runnable, tid),
                        processed \cup {tid})
             ELSE drain(Append(rest, tid), n - 1, runnable,
                        processed \cup {tid})

\* the results run_task can hand to gather: True, False, or an exception
RunResults == {"True", "False", "Exception"}

\* lines 410-481: the loop test, the drain of the ready queue, the stall
\* exit and the start of the batch
CollectBatch ==
    /\ dpc = "loop"
    /\ IF ready = <<>> /\ in_progress = {}
       THEN /\ dpc' = "done"
            /\ UNCHANGED <<ready, in_progress, runnable_tasks, batch_results,
                           start_count>>
       ELSE LET d == drain(ready, Len(ready), <<>>, {}) IN
            /\ ready' = d.ready
            /\ runnable_tasks' = d.runnable
            /\ IF d.runnable = <<>>
               THEN /\ dpc' = IF in_progress = {} THEN "done" ELSE "loop"
                    /\ UNCHANGED <<in_progress, batch_results, start_count>>
               ELSE /\ in_progress' = in_progress \cup ToSet(d.runnable)
                    /\ start_count' =
                         [t \in TaskIds |->
                            IF t \in ToSet(d.runnable)
                            THEN start_count[t] + 1
                            ELSE start_count[t]]
                    /\ batch_results' = [t \in TaskIds |-> "none"]
                    /\ dpc' = "gather"
    /\ UNCHANGED <<completed, failed>>
    /\ UNCHANGED <<libVars, handlerVars>>

\* line 484: one run_task of the batch finishes
TaskFinishes(t) ==
    /\ dpc = "gather"
    /\ t \in ToSet(runnable_tasks)
    /\ batch_results[t] = "none"
    /\ \E r \in RunResults : batch_results' = [batch_results EXCEPT ![t] = r]
    /\ UNCHANGED <<dpc, completed, failed, ready, in_progress, runnable_tasks,
                   start_count>>
    /\ UNCHANGED <<libVars, handlerVars>>

\* lines 486-517: gather has returned; the sets are updated and the
\* dependents of the newly completed tasks are queued
ProcessResults ==
    /\ dpc = "gather"
    /\ \A t \in ToSet(runnable_tasks) : batch_results[t] # "none"
    /\ LET batch == ToSet(runnable_tasks)
           newly_completed ==
               {t \in batch : batch_results[t] = "True" /\ t \notin failed}
           failed2 == failed \cup {t \in batch : batch_results[t] # "True"}
           completed2 == completed \cup newly_completed
           in_progress2 == in_progress \ batch
           potential_new_ready == UNION {dependents(t) : t \in newly_completed}
           added == {d \in potential_new_ready :
                        /\ d \notin completed2
                        /\ d \notin failed2
                        /\ d \notin in_progress2
                        /\ deps_met(d, completed2)
                        /\ d \notin ToSet(ready)}
       IN  /\ in_progress' = in_progress2
           /\ failed' = failed2
           /\ completed' = completed2
           /\ \E order \in OrdersOf(added) : ready' = ready \o order
    /\ dpc' = "loop"
    /\ UNCHANGED <<runnable_tasks, batch_results, start_count>>
    /\ UNCHANGED <<libVars, handlerVars>>

\* lines 403-406
InitDag ==
    /\ dpc = "loop"
    /\ completed = {}
    /\ failed = {}
    /\ ready = SelectSeq(TaskOrder, LAMBDA t : dependencies(t) = {})
    /\ in_progress = {}
    /\ runnable_tasks = <<>>
    /\ batch_results = [t \in TaskIds |-> "none"]
    /\ start_count = [t \in TaskIds |-> 0]
    /\ LibIdle
    /\ HandlerIdle

NextDag ==
    \/ CollectBatch
    \/ \E t \in TaskIds : TaskFinishes(t)
    \/ ProcessResults

SpecDag == InitDag /\ [][NextDag]_vars

\* the event loop runs the executor and its subprocesses to the end
FairDag == SpecDag /\ WF_vars(NextDag)

-----------------------------------------------------------------------------
(* Properties *)

\* the group-building scan is over
GroupsBuilt == pc \in {"export", "upload", "done"}

NPairs == Len(pair_metrics)

\* pair p exists, is classified is_pan and has direction d (1: median_u >= 0)
PanPairOf(p, d) ==
    /\ p \in 0..(NPairs - 1)
    /\ At(pair_metrics, p)[1]
    /\ (At(pair_metrics, p)[3].median_u >= 0) <=> (d = 1)

First(s) == s[1]

\* the positions of s are a, a+1, ..., b
Consecutive(s) ==
    /\ Len(s) >= 1
    /\ \A k \in 1..(Len(s) - 1) : s[k + 1] = s[k] + 1

\* the runs <<d, a, b>>: pairs a..b-1 are all pan pairs of direction d and
\* neither pair a-1 nor pair b is
MaximalRuns ==
    {r \in {-1, 1} \X (0..NPairs) \X (0..NPairs) :
        /\ r[2] < r[3]
        /\ \A p \in r[2]..(r[3] - 1) : PanPairOf(p, r[1])
        /\ ~PanPairOf(r[2] - 1, r[1])
        /\ ~PanPairOf(r[3], r[1])}

EmittedRuns == {<<groups[k][1], First(groups[k][2]), Last(groups[k][2])>> :
                    k \in 1..Len(groups)}

\* C1: once the groups are built, they are exactly the maximal runs of
\* consecutive same-direction pan pairs that cover at least min_group_len
\* sampled positions.
C1_GroupsAreMaximalRuns ==
    GroupsBuilt =>
        /\ \A k \in 1..Len(groups) : Consecutive(groups[k][2])
        /\ EmittedRuns =
             {r \in MaximalRuns : r[3] - r[2] + 1 >= cfg.min_group_len}

\* C2: every emitted group has consecutive, strictly increasing positions
\* a..b, and every pair p with a <= p < b is a pan pair of the group's
\* direction.
C2_GroupsAreSameDirectionRuns ==
    \A k \in 1..Len(groups) :
        LET d == groups[k][1]
            s == groups[k][2]
        IN  /\ Consecutive(s)
            /\ Len(s) >= 2
            /\ \A p \in First(s)..(Last(s) - 1) : PanPairOf(p, d)

\* C2 witness: on [T(+), T(+), T(-), ...] the built groups start with the
\* rightward group {0,1,2}
C2_Witness ==
    /\ pc = "done"
    /\ NPairs >= 3
    /\ PanPairOf(0, 1) /\ PanPairOf(1, 1) /\ PanPairOf(2, -1)
    /\ Len(groups) >= 1
    /\ groups[1] = <<1, <<0, 1, 2>>>>

\* the original frame numbers of the sampled positions of list s
FramesOf(s) == {At(sampled, s[k]).frame_idx : k \in 1..Len(s)}

\* C3: every group holds at least min_group_len positions, and a discarded
\* candidate leaves no trace: the results are numbered 1..n along the emitted
\* groups, each built from its group's frames, every persisted frame lies in
\* an emitted group under that group's id, and the finished run returns one
\* GroupResult per emitted group.
C3_ShortCandidatesDiscarded ==
    /\ \A k \in 1..Len(groups) : Len(groups[k][2]) >= cfg.min_group_len
    /\ Len(results) <= Len(groups)
    /\ \A k \in 1..Len(results) :
          /\ results[k].id = k
          /\ Range(results[k].frame_indices) \subseteq FramesOf(groups[k][2])
    /\ \A u \in storage :
          u.kind = "frame" =>
              /\ u.group \in 1..Len(groups)
              /\ u.frame \in FramesOf(groups[u.group][2])
    /\ pc = "done" => Len(results) = Len(groups)

\* C3 witness: a finished run in which a candidate was discarded and a
\* group was emitted and exported
C3_Witness ==
    /\ pc = "done"
    /\ raw_groups_count > Len(groups)
    /\ Len(results) >= 1
    /\ storage # {}

\* the classification sequence [T(+), T(+), F, T(+)]
IsC4Input ==
    /\ NPairs = 4
    /\ PanPairOf(0, 1)
    /\ PanPairOf(1, 1)
    /\ ~At(pair_metrics, 2)[1]
    /\ PanPairOf(3, 1)

\* C4: on [T(+), T(+), F, T(+)] with min_group_len = 3 exactly one group is
\* emitted, rightward with positions {0,1,2}; the second candidate opened,
\* {3,4}, is discarded, and the result holds the single rightward group.
C4_Example ==
    (GroupsBuilt /\ cfg.min_group_len = 3 /\ IsC4Input) =>
        /\ groups = << <<1, <<0, 1, 2>>>> >>
        /\ raw_groups_count = 2
        /\ g = <<3, 4>>
        /\ pc = "done" =>
              /\ Len(results) = 1
              /\ results[1].direction = "right"

C4_Witness ==
    /\ pc = "done"
    /\ cfg.min_group_len = 3
    /\ IsC4Input
    /\ Len(groups) = 1

StrictlyIncreasing(s) == \A k \in 1..(Len(s) - 1) : s[k] < s[k + 1]

\* C5: for every step >= 1 the selection of pick_subset is a strictly
\* increasing subsequence of its input that starts with the input's first
\* position and ends with its last.
C5_SelectionKeepsEndpoints ==
    pc = "picked" =>
        /\ step >= 1
        /\ Len(export_idxs) >= 1
        /\ StrictlyIncreasing(export_idxs)
        /\ Range(export_idxs) \subseteq Range(g)
        /\ First(export_idxs) = First(g)
        /\ Last(export_idxs) = Last(g)

\* C5 witness: the last position is forced inside the step window
C5_Witness ==
    /\ pc = "picked"
    /\ step = 3
    /\ g = <<0, 1, 2, 3, 4>>
    /\ export_idxs = <<0, 3, 4>>

\* the largest kept position below p
KeptBelow(p) ==
    CHOOSE q \in Range(export_idxs) :
        /\ q < p
        /\ \A r \in Range(export_idxs) : r < p => r <= q

\* C6: with export_all_in_group = false the selection of a group is the
\* greedy minimum-spacing selection with step 2: the first position is kept,
\* a later position other than the last is kept iff it lies at least 2 beyond
\* the last kept one, the final position is kept exactly once, and all
\* consecutive kept positions but the last two differ by at least 2.
C6_GreedySelection ==
    (pc = "upload" /\ ~cfg.export_all_in_group) =>
        LET idx == groups[gid][2] IN
        /\ step = 2
        /\ First(export_idxs) = First(idx)
        /\ StrictlyIncreasing(export_idxs)
        /\ \A p \in Range(idx) \ {First(idx), Last(idx)} :
              (p \in Range(export_idxs)) <=> (p - KeptBelow(p) >= 2)
        /\ Cardinality({k \in 1..Len(export_idxs) :
                            export_idxs[k] = Last(idx)}) = 1
        /\ Last(export_idxs) = Last(idx)
        /\ Range(export_idxs) \subseteq Range(idx)
        /\ \A k \in 1..(Len(export_idxs) - 2) :
              export_idxs[k + 1] - export_idxs[k] >= 2

\* C6 witness: a group of four positions, whose last is forced after 0 and 2
C6_Witness ==
    /\ pc = "upload"
    /\ ~cfg.export_all_in_group
    /\ groups[gid][2] = <<0, 1, 2, 3>>
    /\ export_idxs = <<0, 2, 3>>

\* decoded frame f passes both tests of the sampler
Kept(f) ==
    /\ f % cfg.sample_every = 0
    /\ At(video.frames, f) > cfg.sharp_thr

\* C7: after sampling, the sampled list holds exactly the decoded frames f
\* with f mod sample_every = 0 and variance > sharp_thr, each once and with
\* its own image, in strictly increasing order of f.
C7_SampledExactlyKeptFrames ==
    pc = "motion" =>
        /\ \A k \in 1..Len(sampled) :
              /\ sampled[k].frame_idx \in 0..(Len(video.frames) - 1)
              /\ Kept(sampled[k].frame_idx)
              /\ sampled[k].var = At(video.frames, sampled[k].frame_idx)
        /\ \A k \in 1..(Len(sampled) - 1) :
              sampled[k].frame_idx < sampled[k + 1].frame_idx
        /\ \A f \in 0..(Len(video.frames) - 1) :
              Kept(f) => \E k \in 1..Len(sampled) : sampled[k].frame_idx = f

\* C7 witness: sampling every 2nd frame of a video whose frame 2 is on the
\* stride but exactly at the threshold and whose frames 1 and 3 are sharp
\* but off the stride
C7_Witness ==
    /\ pc = "motion"
    /\ cfg.sample_every = 2
    /\ video.frames = <<SharpVar, SharpVar, cfg.sharp_thr, SharpVar, SharpVar>>
    /\ Len(sampled) = 2
    /\ sampled[2].frame_idx = 4

\* the pairs inside group k: from its first position up to its last one
PairsOf(k) == First(groups[k][2])..(Last(groups[k][2]) - 1)

\* C8: a pair whose summary is absent is recorded as is_pan = false with
\* score 0, raises nothing, lies in no group (so opens none), and the pairs
\* after it are still analysed.
C8_AbsentSummaryIsNotPan ==
    /\ \A p \in 0..(NPairs - 1) :
          ~At(pair_metrics, p)[3].present =>
              /\ At(pair_metrics, p)[1] = FALSE
              /\ At(pair_metrics, p)[2][1] = 0
    /\ error \notin {"TypeError", "ZeroDivisionError"}
    /\ \A k \in 1..Len(groups) :
          \A p \in PairsOf(k) : At(pair_metrics, p)[3].present
    /\ pc \notin {"motion", "error"} => NPairs = Max(Len(sampled) - 1, 0)

\* C8 witness: a finished run with an absent summary followed by a pair
\* that opened an emitted group
C8_Witness ==
    /\ pc = "done"
    /\ \E p \in 0..(NPairs - 1), k \in 1..Len(groups) :
          /\ ~At(pair_metrics, p)[3].present
          /\ First(groups[k][2]) = p + 1

\* C9: for a present summary, is_pan holds iff all five inclusive conditions
\* hold; in particular a zero displacement is no pan when tau_u_min > 0.
C9_PanIffAllConditions ==
    \A p \in 0..(NPairs - 1) :
        LET e == At(pair_metrics, p)
            m == e[3]
        IN  m.present =>
              /\ e[1] <=>
                  /\ m.inlier_ratio >= cfg.tau_inliers
                  /\ Abs(m.median_v) <= cfg.tau_v
                  /\ cfg.tau_u_min <= Abs(m.median_u)
                  /\ Abs(m.median_u) <= cfg.tau_u_max
                  /\ Abs(m.scale - 1000) <= cfg.tau_scale
                  /\ m.resid <= cfg.tau_parallax
              /\ (m.median_u = 0 /\ cfg.tau_u_min > 0) => ~e[1]

\* C9 witness: a summary with every value exactly on its threshold is a pan
C9_Witness ==
    /\ NPairs = 1
    /\ cfg = DefaultCfg
    /\ pair_metrics[1][1]
    /\ pair_metrics[1][3] =
          Summary(cfg.tau_inliers, -cfg.tau_u_min, cfg.tau_v,
                  cfg.tau_parallax, 1000 + cfg.tau_scale)

\* median_u of the pair that opened group k
OpeningU(k) == At(pair_metrics, First(groups[k][2]))[3].median_u

\* C10: a group is reported "right" iff the median_u of the pair that opened
\* it is >= 0 and "left" otherwise, in the group list and in the result.
C10_DirectionFromOpeningPair ==
    /\ \A k \in 1..Len(groups) :
          /\ groups[k][1] \in {-1, 1}
          /\ groups[k][1] = 1 <=> OpeningU(k) >= 0
    /\ \A k \in 1..Len(results) :
          /\ results[k].direction \in {"right", "left"}
          /\ results[k].direction = "right" <=> OpeningU(k) >= 0
          /\ (OpeningU(k) > 0 => results[k].direction = "right")
          /\ (OpeningU(k) < 0 => results[k].direction = "left")

\* C10 witness: a finished run reporting a leftward group and a rightward
\* group opened by a pair of zero displacement
C10_Witness ==
    /\ pc = "done"
    /\ \E k1, k2 \in 1..Len(results) :
          /\ results[k1].direction = "left"
          /\ results[k2].direction = "right"
          /\ OpeningU(k2) = 0


-----------------------------------------------------------------------------
(* The quality gate *)

\* the stitcher invocations whose group has been recorded
RecordedCalls == {k \in 1..Len(stitch_calls) : stitch_calls[k].gid <= Len(results)}

\* width / height >= min ratio, and the percentage of pixels of intensity
\* below 10 (in this model: of intensity 9) is at most the maximum
GateHolds(pano, c) ==
    /\ pano.width * 100 >= c.min_pano_aspect_ratio * pano.height
    /\ pano.hist[9] * 100 <=
           c.max_black_border_percent * (pano.width * pano.height)

DefaultGate ==
    /\ cfg.min_pano_aspect_ratio = DefaultCfg.min_pano_aspect_ratio
    /\ cfg.max_black_border_percent = DefaultCfg.max_black_border_percent

\* C11: a successfully stitched image is accepted exactly if its width
\* divided by its height is at least the minimum ratio and the percentage of
\* its pixels of intensity below 10 is at most the maximum; with the default
\* thresholds a square image is rejected whatever its black content and an
\* image with 20% black pixels is rejected whatever its aspect ratio.
C11_QualityGate ==
    \A k \in RecordedCalls :
        LET call == stitch_calls[k]
            r == results[call.gid]
        IN  call.status = "OK" =>
              /\ r.has_pano <=> GateHolds(call.pano, cfg)
              /\ DefaultGate /\ call.pano.width = call.pano.height
                    => ~r.has_pano
              /\ DefaultGate /\ call.pano.hist[9] * 5 =
                                    call.pano.width * call.pano.height
                    => ~r.has_pano

\* an image exactly on both default thresholds (ratio 1.2, 15% black) that
\* also has pixels of intensity 10 has been accepted
C11_Witness ==
    /\ pc = "done"
    /\ DefaultGate
    /\ \E k \in RecordedCalls :
          LET call == stitch_calls[k] IN
          /\ call.status = "OK"
          /\ call.pano.width * 10 = 12 * call.pano.height
          /\ call.pano.hist[9] * 100 =
                 15 * (call.pano.width * call.pano.height)
          /\ call.pano.hist[10] > 0
          /\ results[call.gid].has_pano

-----------------------------------------------------------------------------
(* The panorama of a group *)

\* the original frame numbers of the images handed to the stitcher
CallFrames(call) ==
    [n \in 1..Len(call.images) |-> At(sampled, call.images[n]).frame_idx]

\* the stitcher succeeded on the export selection of result r and its image
\* passes the gate
StitchedAndPassed(r) ==
    \E k \in 1..Len(stitch_calls) :
        LET call == stitch_calls[k] IN
        /\ call.gid = r.id
        /\ CallFrames(call) = r.frame_indices
        /\ call.status = "OK"
        /\ GateHolds(call.pano, cfg)

\* C12: in a returned result a group carries pano_uri only if stitching was
\* enabled, the stitcher returned success for the group's export selection
\* and the image passed the quality gate; every other group has no pano_uri.
C12_PanoOnlyIfStitchedAndPassed ==
    pc = "done" =>
        \A k \in 1..Len(results) :
            LET r == results[k] IN
            /\ r.has_pano <=> (cfg.stitch /\ StitchedAndPassed(r))
            /\ r.has_pano => r.pano_uri = pano_uri_of(r.id)
            /\ r.has_pano => r.pano_uri \in storage
            /\ ~r.has_pano => r.pano_uri = NoUri

\* a returned result with one group that has a panorama and one whose
\* successfully stitched image was rejected by the gate
C12_Witness ==
    /\ pc = "done"
    /\ cfg.stitch
    /\ \E k1, k2 \in 1..Len(results) :
          /\ results[k1].has_pano
          /\ ~results[k2].has_pano
          /\ \E n \in 1..Len(stitch_calls) :
                /\ stitch_calls[n].gid = k2
                /\ stitch_calls[n].status = "OK"

FrameEntries(store) == {u \in store : u.kind = "frame"}

\* the stitch-and-record step of the current group is about to run
AtStitch == pc = "upload" /\ pos >= Len(export_idxs)

\* the step from AtStitch made no panorama: stitching disabled or skipped,
\* the stitcher failed, or the gate rejected the image
NoPanoMade ==
    \/ stitch_calls' = stitch_calls
    \/ /\ Len(stitch_calls') = Len(stitch_calls) + 1
       /\ LET call == stitch_calls'[Len(stitch_calls')] IN
          \/ call.status # "OK"
          \/ ~GateHolds(call.pano, cfg)

\* C13: a failed stitch or a gate rejection changes nothing but pano_uri.
\* The stitch-and-record step never changes the groups, the sampled frames,
\* the persisted frames or the earlier results; whenever it records a group
\* the record has the id, direction, frame_indices and frame_uris fixed
\* before the stitch and the run continues with the next group in the same
\* way; and when no panorama was made (stitching disabled, failed or
\* rejected) it does record the group, without pano_uri and without error.
C13_StitchFailureOnlyDropsPano ==
    [][AtStitch =>
         /\ groups' = groups
         /\ sampled' = sampled
         /\ FrameEntries(storage') = FrameEntries(storage)
         /\ SubSeq(results', 1, Len(results)) = results
         /\ (NoPanoMade => Len(results') = Len(results) + 1 /\ pc' # "error")
         /\ Len(results') = Len(results) + 1 =>
               LET r == results'[Len(results')] IN
               /\ r.id = gid
               /\ r.direction = (IF groups[gid][1] = 1 THEN "right" ELSE "left")
               /\ r.frame_indices = exported_frame_indices
               /\ r.frame_uris = exported_frame_uris
               /\ Len(r.frame_uris) = Len(export_idxs)
               /\ NoPanoMade <=> ~r.has_pano
               /\ gid' = gid + 1
               /\ pc' = "export"
               /\ error' = error]_vars

\* a returned result with a group whose stitch failed and a group whose
\* image was rejected, both with their exported frames
C13_Witness ==
    /\ pc = "done"
    /\ Len(stitch_calls) = 2
    /\ stitch_calls[1].status = "ERR"
    /\ stitch_calls[2].status = "OK"
    /\ ~GateHolds(stitch_calls[2].pano, cfg)
    /\ Len(results) = 2
    /\ \A k \in 1..2 : ~results[k].has_pano /\ Len(results[k].frame_uris) = 2

-----------------------------------------------------------------------------
(* Errors and outcomes *)

\* C14: if the video cannot be opened the run aborts at once with an error:
\* no frame is sampled, no pair estimated, nothing persisted, the stitcher is
\* never invoked and no result is returned.
C14_UnopenableVideoAborts ==
    ~video.openable =>
        /\ pc \in {"open", "error"}
        /\ pc = "error" => error = "RuntimeError"
        /\ fidx = 0
        /\ sampled = <<>>
        /\ pair_metrics = <<>>
        /\ storage = {}
        /\ stitch_calls = <<>>
        /\ results = <<>>

C14_Witness == ~video.openable /\ pc = "error" /\ error = "RuntimeError"

\* the frames of group k that are in the object store
PersistedFrames(k) == {u \in storage : u.kind = "frame" /\ u.group = k}

\* the upload of a frame (not of a panorama) has failed
FrameUploadFailed ==
    pc = "error" /\ error = "UploadError" /\ pos < Len(export_idxs)

\* C15: if persisting an exported frame fails, the run fails with an error,
\* no result is returned, and no group is left with only some of its
\* selected frames persisted.
C15_NoPartialGroupExport ==
    error = "UploadError" =>
        /\ pc = "error"
        /\ FrameUploadFailed =>
              Cardinality(PersistedFrames(gid)) \in {0, Len(export_idxs)}

\* the run has ended
Ended == pc \in {"done", "error"}

\* a returned result is complete and an ended run without result has an error
Outcome ==
    /\ pc = "done" =>
          /\ error = "none"
          /\ Len(results) = Len(groups)
          /\ \A k \in 1..Len(groups) :
                /\ results[k].id = k
                /\ Len(results[k].frame_uris) >= 1
    /\ pc = "error" <=> error # "none"

\* C16: every invocation ends, either with a complete result record (a
\* GroupResult for every emitted group) or with a single error; a result
\* with only some of the emitted groups is never delivered.
C16_CompleteResultOrError == []Outcome /\ <>Ended

\* a run that returned a result with two groups
C16_Witness == pc = "done" /\ Len(groups) = 2 /\ Len(results) = 2

-----------------------------------------------------------------------------
(* The end-to-end example, ids, frame lists, export_overlap_target *)

\* the input of the example: 30 frames, all sharp, sample_every 3,
\* min_group_len 3, export_all_in_group false, every pair a rightward pan
IsE2EInput ==
    /\ Len(video.frames) = 30
    /\ \A k \in 1..Len(video.frames) : video.frames[k] > cfg.sharp_thr
    /\ cfg.sample_every = 3
    /\ cfg.min_group_len = 3
    /\ ~cfg.export_all_in_group
    /\ NPairs = 9
    /\ \A p \in 0..(NPairs - 1) :
          At(pair_metrics, p)[1] /\ At(pair_metrics, p)[3].median_u > 0

\* C17: on the end-to-end input the result has exactly one GroupResult, its
\* direction is right, and its frame_indices start with the original frame
\* index of the group's first position (0) and end with that of its last (27).
C17_EndToEndExample ==
    pc = "done" /\ IsE2EInput =>
        /\ Len(results) = 1
        /\ Len(groups) = 1
        /\ results[1].direction = "right"
        /\ First(results[1].frame_indices) =
               At(sampled, First(groups[1][2])).frame_idx
        /\ Last(results[1].frame_indices) =
               At(sampled, Last(groups[1][2])).frame_idx
        /\ First(groups[1][2]) = 0
        /\ Last(groups[1][2]) = 9
        /\ First(results[1].frame_indices) = 0
        /\ Last(results[1].frame_indices) = 27

C17_Witness ==
    /\ pc = "done"
    /\ IsE2EInput
    /\ Len(results) = 1
    /\ results[1].frame_indices = <<0, 6, 12, 18, 24, 27>>

\* C18: the k-th GroupResult has id k and is the record of the k-th emitted
\* group, and the groups are emitted in the order of ascending first sampled
\* position.
C18_IdsInDiscoveryOrder ==
    /\ \A k \in 1..Len(results) :
          /\ results[k].id = k
          /\ k <= Len(groups)
          /\ results[k].direction =
                 (IF groups[k][1] = 1 THEN "right" ELSE "left")
          /\ First(results[k].frame_indices) =
                 At(sampled, First(groups[k][2])).frame_idx
    /\ \A k \in 1..(Len(groups) - 1) :
          First(groups[k][2]) < First(groups[k + 1][2])
    /\ \A k1, k2 \in 1..Len(results) :
          k1 < k2 => First(results[k1].frame_indices) <
                         First(results[k2].frame_indices)

\* a returned result with a leftward group 1 before a rightward group 2
C18_Witness ==
    /\ pc = "done"
    /\ Len(results) = 2
    /\ results[1].id = 1 /\ results[1].direction = "left"
    /\ results[2].id = 2 /\ results[2].direction = "right"

\* C19: frame_indices and frame_uris of a GroupResult are as long as the
\* group's export selection; the k-th frame index is the original frame
\* number of the k-th selected sampled position and the k-th location is
\* that frame's persisted location; frame_indices is strictly increasing and
\* each entry is a multiple of sample_every.  The record just appended is
\* compared with export_idxs, which still holds its group's selection.
C19_FrameListsFollowSelection ==
    /\ \A k \in 1..Len(results) :
          LET r == results[k] IN
          /\ Len(r.frame_indices) = Len(r.frame_uris)
          /\ StrictlyIncreasing(r.frame_indices)
          /\ \A n \in 1..Len(r.frame_indices) :
                /\ r.frame_indices[n] % cfg.sample_every = 0
                /\ r.frame_indices[n] \in 0..(Len(video.frames) - 1)
                /\ r.frame_uris[n].kind = "frame"
                /\ r.frame_uris[n].group = r.id
                /\ r.frame_uris[n].frame = r.frame_indices[n]
                /\ r.frame_uris[n] \in storage
    /\ pc \in {"export", "done"} /\ Len(results) >= 1 =>
          LET r == Last(results) IN
          /\ Len(r.frame_indices) = Len(export_idxs)
          /\ \A n \in 1..Len(export_idxs) :
                r.frame_indices[n] = At(sampled, export_idxs[n]).frame_idx

\* frame 1 was not sampled, so positions 0 and 2 are frames 0 and 3
C19_Witness ==
    /\ pc = "done"
    /\ Len(results) = 1
    /\ export_idxs = <<0, 2>>
    /\ results[1].frame_indices = <<0, 3>>

\* C20: export_overlap_target never influences the output.  Every step the
\* function takes is the step it takes with any other export_overlap_target,
\* all else equal, so two runs that differ only in this setting go through
\* the same values of every other variable and return identical results;
\* and the step of the export selection is 2.
C20_OverlapTargetIgnored ==
    [][/\ \A t \in OverlapTargets :
             NextWith([cfg EXCEPT !.export_overlap_target = t])
       /\ (pc = "export" /\ pc' = "upload" /\ ~cfg.export_all_in_group)
             => step' = 2]_vars

\* a returned result, selected with step 2 under a 90% overlap target
C20_Witness ==
    /\ pc = "done"
    /\ cfg.export_overlap_target = 90
    /\ ~cfg.export_all_in_group
    /\ step = 2
    /\ Len(results) = 1
    /\ Len(groups[1][2]) = 4
    /\ Len(results[1].frame_indices) = 3

-----------------------------------------------------------------------------
(* Scores and grouping *)

\* the entries the motion loop can append under the current configuration
ScoredEntries == {pair_entry(m, cfg) : m \in ScoredSummaries}

\* entries that agree with e on is_pan and, for a pan, on the sign of median_u
SameClass(e) ==
    {e2 \in ScoredEntries :
        /\ e2[1] = e[1]
        /\ e[1] => ((e2[3].median_u >= 0) <=> (e[3].median_u >= 0))}

\* the lists that agree with pm pair by pair on is_pan and on the sign
RECURSIVE SameClassLists(_)
SameClassLists(pm) ==
    IF pm = <<>> THEN {<<>>}
    ELSE {Append(front, e2) :
            front \in SameClassLists(SubSeq(pm, 1, Len(pm) - 1)),
            e2 \in SameClass(pm[Len(pm)])}

InScan == pc \in {"scan", "extend"}

\* C21: the score does not gate grouping.  Every step of the group-building
\* loops is the step they take on any other classification list of the same
\* length that agrees pair by pair on is_pan and on the sign of median_u,
\* with identical next values of i, j, direction, g and groups; so two such
\* lists produce identical groups whatever their scores.
C21_ScoreDoesNotGateGrouping ==
    [][InScan => \A pm2 \in SameClassLists(pair_metrics) : ScanStepOn(pm2)]_vars

\* a group built from a strong and a weak rightward pan, closed by a weak
\* leftward pan
C21_Witness ==
    /\ pc = "export"
    /\ NPairs = 3
    /\ At(pair_metrics, 0) = pair_entry(PanRight, cfg)
    /\ At(pair_metrics, 1) = pair_entry(PanRightWeak, cfg)
    /\ At(pair_metrics, 2) = pair_entry(PanLeftWeak, cfg)
    /\ Len(groups) = 1
    /\ groups[1][2] = <<0, 1, 2>>

-----------------------------------------------------------------------------
(* The group builder as a two-state automaton *)

\* direction = right if median_u >= 0 else left
AutomatonDirection(e) == IF e[3].median_u >= 0 THEN "right" ELSE "left"

\* closure: the positions are deduplicated and sorted; the group is discarded
\* if they are fewer than mgl, emitted otherwise
AutomatonClose(out, dir, cand, mgl) ==
    IF Cardinality(cand) < mgl THEN out
    ELSE Append(out, <<dir, SortedOf(cand)>>)

\* the automaton in state mode at pair idx of the classification list pm,
\* with the open group cand of direction dir and the groups out emitted so far
RECURSIVE Automaton(_, _, _, _, _, _, _)
Automaton(pm, mgl, mode, idx, dir, cand, out) ==
    IF mode = "scanning"
    THEN IF idx >= Len(pm) THEN out
         ELSE IF ~At(pm, idx)[1]
         THEN Automaton(pm, mgl, "scanning", idx + 1, dir, cand, out)
         ELSE Automaton(pm, mgl, "extending", idx + 1,
                        AutomatonDirection(At(pm, idx)), {idx, idx + 1}, out)
    ELSE IF /\ idx < Len(pm)
            /\ At(pm, idx)[1]
            /\ AutomatonDirection(At(pm, idx)) = dir
         THEN Automaton(pm, mgl, "extending", idx + 1, dir,
                        cand \cup {idx + 1}, out)
         ELSE Automaton(pm, mgl, "scanning", idx + 1, dir, {},
                        AutomatonClose(out, dir, cand, mgl))

\* initial state: scanning at pair 0
AutomatonGroups(pm, mgl) ==
    Automaton(pm, mgl, "scanning", 0, "right", {}, <<>>)

\* the groups of the code with the direction written as in the result
CodeGroups ==
    [k \in 1..Len(groups) |->
        <<IF groups[k][1] = 1 THEN "right" ELSE "left", groups[k][2]>>]

\* C22: the two-state automaton (scanning / extending, starting in scanning
\* at pair 0) and the nested loops of the code emit the same sequence of
\* groups: same directions, same sampled positions, same order.
C22_AutomatonEmitsSameGroups ==
    GroupsBuilt => CodeGroups = AutomatonGroups(pair_metrics, cfg.min_group_len)

\* two groups of opposite directions separated by one non-pan pair
C22_Witness ==
    /\ pc = "export"
    /\ NPairs = 4
    /\ CodeGroups = <<<<"left", <<0, 1, 2>>>>, <<"right", <<3, 4>>>>>>
    /\ CodeGroups = AutomatonGroups(pair_metrics, cfg.min_group_len)

\* the pan pair at position Last of group k ended the group by reversal
ClosedByReversal(k) ==
    LET jj == Last(groups[k][2]) IN
    /\ jj < NPairs
    /\ At(pair_metrics, jj)[1]

\* C23: when a group is closed at pair j, scanning resumes at pair j + 1 and
\* never returns to pair j: the outer index never decreases and stays beyond
\* the pair that closed the last candidate; a pan pair that closed a group by
\* direction reversal opens no group and lies in none, and the next group
\* starts at position j + 1 or later.
C23_ScanResumesAfterClosingPair ==
    /\ [][/\ i' >= i
          /\ (pc = "extend" /\ pc' = "scan") => (i' = j + 1 /\ j' = j)]_vars
    /\ [](/\ (pc = "scan" /\ raw_groups_count > 0) => i >= j + 1
          /\ \A k \in 1..Len(groups) :
                LET jj == Last(groups[k][2]) IN
                /\ k < Len(groups) => First(groups[k + 1][2]) >= jj + 1
                /\ ClosedByReversal(k) =>
                      \A k2 \in 1..Len(groups) :
                          /\ First(groups[k2][2]) # jj
                          /\ jj \notin PairsOf(k2))

\* a rightward group closed by a leftward pan pair at j = 2 that is followed
\* by another leftward pan pair: pair 2 is in no group, the next group starts
\* at position 3
C23_Witness ==
    /\ pc = "export"
    /\ Len(groups) = 2
    /\ groups[1] = <<1, <<0, 1, 2>>>>
    /\ ClosedByReversal(1)
    /\ groups[2] = <<-1, <<3, 4>>>>

\* the inner loop has run to the end of the classification list
OpenAtEnd == pc = "extend" /\ j = Len(pair_metrics)

\* C24: a candidate that is still being extended when the classification
\* list ends is closed there like any other: it is emitted if it has at least
\* min_group_len positions and discarded otherwise; once the groups are
\* built, the last candidate, if it ran to the end of the list, is the last
\* emitted group exactly if it has min_group_len positions.
C24_OpenCandidateClosedAtEnd ==
    /\ [][OpenAtEnd =>
            /\ pc' = "scan"
            /\ groups' = IF Cardinality(Range(g)) >= cfg.min_group_len
                         THEN Append(groups, <<direction, SortedOf(Range(g))>>)
                         ELSE groups]_vars
    /\ [](GroupsBuilt /\ g # <<>> /\ Last(g) = NPairs =>
            /\ Len(g) >= cfg.min_group_len =>
                  groups # <<>> /\ Last(groups) = <<direction, g>>
            /\ Len(g) < cfg.min_group_len =>
                  \A k \in 1..Len(groups) : Last(groups[k][2]) < First(g))

\* a candidate that ran to the end of the list was emitted after an earlier
\* group
C24_Witness ==
    /\ pc = "export"
    /\ g # <<>>
    /\ j = NPairs
    /\ Last(g) = NPairs
    /\ Len(groups) = 2
    /\ groups[2] = <<direction, g>>
    /\ Len(g) = cfg.min_group_len

-----------------------------------------------------------------------------
(* Concurrent motion estimation *)

\* the classification list of the sequential loop: entry p from pair p
SequentialList ==
    [k \in 1..Len(video.motion) |-> pair_entry(video.motion[k], cfg)]

\* the entries in which two lists of the same length differ
Changed(pm1, pm2) == {k \in 1..Len(pm1) : pm1[k] # pm2[k]}

-----------------------------------------------------------------------------
(* Disjoint groups, group sizes, termination of the scan *)

\* C26: emitted groups are pairwise disjoint and ordered: no sampled position
\* lies in two groups and the last position of a group is strictly below the
\* first position of the next; and every upload of an exported frame writes a
\* location that was not written before in the run.
C26_GroupsDisjointAndOrdered ==
    /\ [](/\ \A k \in 1..(Len(groups) - 1) :
                Last(groups[k][2]) < First(groups[k + 1][2])
          /\ \A k1, k2 \in 1..Len(groups) :
                k1 # k2 => Range(groups[k1][2]) \cap Range(groups[k2][2]) = {})
    /\ [][(pc = "upload" /\ pos' = pos + 1) =>
            /\ Last(exported_frame_uris') \notin storage
            /\ Cardinality(storage') = Cardinality(storage) + 1]_vars

\* two adjacent groups, positions 0..1 and 2..3, with all four frames stored
C26_Witness ==
    /\ pc = "done"
    /\ Len(groups) = 2
    /\ groups[1][2] = <<0, 1>>
    /\ groups[2][2] = <<2, 3>>
    /\ Cardinality(storage) = 4

\* the stitcher invocations for group k
CallsFor(k) == {n \in 1..Len(stitch_calls) : stitch_calls[n].gid = k}

\* C27: every emitted group has at least 2 sampled positions whatever
\* min_group_len is, every export selection has at least 2 entries, and with
\* stitching enabled the stitcher is invoked exactly once, on at least 2
\* images, for every group that has been processed.
C27_AtLeastTwoPositions ==
    /\ \A k \in 1..Len(groups) : Cardinality(Range(groups[k][2])) >= 2
    /\ pc = "upload" => Len(export_idxs) >= 2
    /\ \A k \in 1..Len(results) : Len(results[k].frame_indices) >= 2
    /\ \A n \in 1..Len(stitch_calls) : Len(stitch_calls[n].images) >= 2
    /\ cfg.stitch =>
          /\ \A k \in 1..Len(results) : Cardinality(CallsFor(k)) = 1
          /\ \A k \in 1..Len(groups) : Cardinality(CallsFor(k)) <= 1
          /\ pc = "done" => Len(stitch_calls) = Len(groups)

\* with min_group_len = 0 two groups of two positions were each stitched once
C27_Witness ==
    /\ pc = "done"
    /\ cfg.stitch
    /\ cfg.min_group_len = 0
    /\ ~cfg.export_all_in_group
    /\ Len(groups) = 2
    /\ Len(groups[1][2]) = 2
    /\ Len(stitch_calls) = 2

\* the pair index the group builder looks at in its current state
Examined == IF pc = "scan" THEN i ELSE j

\* C28: the group-building scan terminates for every finite classification
\* list: every outer iteration ends with a larger outer index, the pair index
\* examined grows with every step, so each pair is examined at most once, and
\* the scan reaches its end; with 0 or 1 sampled frames the list is empty,
\* no group is built and no error is raised.
C28_ScanTerminates ==
    /\ [][(InScan /\ pc' = "scan") => i' > i]_vars
    /\ [][(InScan /\ pc' \in {"scan", "extend"}) => Examined' > Examined]_vars
    /\ [](InScan => Examined <= NPairs + 1)
    /\ [](Len(sampled) <= 1 =>
             /\ NPairs = 0
             /\ pc # "extend"
             /\ error = "none"
             /\ groups = <<>>)
    /\ (InScan ~> pc = "export")

\* the scan of an empty classification list (one sampled frame) has ended
C28_Witness ==
    /\ pc = "export"
    /\ Len(sampled) = 1
    /\ NPairs = 0
    /\ groups = <<>>
    /\ error = "none"

\* the fields extract_pans requires
RequiredFields == {"video_gcs_uri", "output_prefix"}

\* the status the request must be answered with
ExpectedStatus ==
    IF request.method # "POST" THEN 405
    ELSE IF \/ ~request.valid
            \/ request.value.type # "object"
            \/ ~(RequiredFields \subseteq request.value.keys) THEN 400
    ELSE IF outcome \in {"download_failed", "process_failed"} THEN 500
    ELSE 200

\* C29: extract_pans never lets an exception escape; it answers 405 to a
\* non-POST request, 400 to a body that is not JSON, is not a JSON object or
\* lacks video_gcs_uri or output_prefix, 500 when download or processing
\* fails and 200 with the result record otherwise; the temporary file of a
\* downloaded video no longer exists when the response is returned.
C29_HandlerAlwaysAnswers ==
    /\ hpc # "raised"
    /\ hpc = "returned" =>
        /\ response.status \in {200, 400, 405, 500}
        /\ response.status = ExpectedStatus
        /\ response.status = 200 <=> response.body = "results"
        /\ local_path # "" => local_path \notin tmp_files

\* every dependency written for a task in the dependency_map literal
DeclaredDependencies(t) ==
    UNION {dependency_map_literal[k][2] :
              k \in EntriesFor(dependency_map_literal, t)}

Started(t) == start_count[t] >= 1

\* C30: execute_dag starts each task at most once and only after every
\* dependency written for it in the dependency_map literal has completed
\* successfully (both entries of implement_background_tasks included); a
\* task with a failed dependency is never started; the executor ends, and
\* when it has ended nothing is in progress and no task whose dependencies
\* have all completed is left unstarted.
C30_TasksStartAfterDeclaredDependencies ==
    /\ [](\A t \in TaskIds :
            /\ start_count[t] <= 1
            /\ Started(t) => DeclaredDependencies(t) \subseteq completed
            /\ Started(t) => DeclaredDependencies(t) \cap failed = {})
    /\ [](dpc = "done" =>
            /\ in_progress = {}
            /\ \A t \in TaskIds :
                 DeclaredDependencies(t) \subseteq completed => Started(t))
    /\ <>(dpc = "done")

=============================================================================
